---- MODULE Spec2Model ----
(***************************************************************************)
(* Buzzer melody players of alexanderspeer/buzzer-mp3.                     *)
(*                                                                         *)
(* Four sketches share one shape, a loop over a table of events that       *)
(* drives the tone output of one pin:                                      *)
(*   "envelope"  src/test-new-song-envelope-newjson.ino, lines 1-227       *)
(*   "plain"     src/test-new-song-envelope-newjson.ino, lines 229-335     *)
(*   "table"     src/unnamed/part_000, lines 1-59                          *)
(*   "pause"     src/unnamed/part_000, lines 62-276                        *)
(* The variable sketch says which one runs.  Time is the sum of the        *)
(* delay() calls: computation takes no time.  The target is an AVR board:  *)
(* int is 16 bits, uint16_t is unsigned int, uint32_t is unsigned long.    *)
(*                                                                         *)
(* Line 163 of the envelope sketch computes the gates of the hold section  *)
(* from ms, a name that exists only inside gateFor; the model reads it as  *)
(* holdMs, the duration the surrounding test is about.                     *)
(***************************************************************************)
EXTENDS Integers, Sequences, FiniteSets, TLC

VARIABLES
    sketch,     \* which sketch runs
    pc,         \* position of the program in its loop
    i,          \* loop(): index of the event
    tone,       \* frequency on BUZZ_PIN, 0 after noTone()
    elapsed,    \* ms of delay() issued since the current event was fetched
                \* (pause sketch: millis() - t0 inside playRest; inside
                \* playToneGated the delays of the slices and of line 238)
    started,    \* a tone() call was issued for the current event
    note,       \* loop(): note of the current event (table sketch: melody[i])
    ticks,      \* loop(): ticks of the current event
    durMs,      \* loop(): converted duration of the current event
    freq,       \* frequency handed to tone() for the current event
    volLevel,   \* envelope sketch: volPotToLevel(analogRead(VOL_POT_PIN))
    gap,        \* envelope sketch: loop()'s gap
    playMs,     \* envelope sketch: loop()'s playMs, durMs of playToneWithEnvelope
    attackMs,   \* playToneWithEnvelope
    releaseMs,  \* playToneWithEnvelope
    holdMs,     \* playToneWithEnvelope
    phase,      \* playToneWithEnvelope: "attack", "hold" or "release"
    steps,      \* gateFor / hold loop: number of gates
    s,          \* gateFor / hold loop: gate index
    lvl,        \* gateFor / hold loop: level of the current gate
    onMs,       \* on time of the current gate or slice
    paused,     \* pause sketch: the pause flag
    lastStable, \* pause sketch: handlePauseButton's static lastStable
    lastRead,   \* pause sketch: handlePauseButton's static lastRead
    age,        \* pause sketch: millis() - lastChangeMs, saturating
    remaining,  \* pause sketch: playToneGated's remaining
    volDuty,    \* pause sketch: playToneGated's volDuty, in 1/1023
    slice,      \* pause sketch: playToneGated's slice
    ret,        \* pause sketch: where waitWhilePaused returns to
    waited,     \* pause sketch: waitWhilePaused delayed during the current event
    playNote,   \* loop(): the transposed, clamped note of the current event
    pitchMul    \* pause sketch: the reading behind playToneGated's pitchMul

loopVars == <<sketch, pc, i, tone, elapsed, started, note, ticks, durMs, freq>>
envVars  == <<volLevel, gap, playMs, attackMs, releaseMs, holdMs, phase, steps, s, lvl>>
btnVars  == <<paused, lastStable, lastRead, age>>
gateVars == <<remaining, volDuty, slice, ret, waited>>
noteVars == <<playNote, pitchMul>>
vars     == <<loopVars, envVars, onMs, btnVars, gateVars, noteVars>>

(***************************************************************************)
(* Bounds of the model.                                                    *)
(***************************************************************************)
\* number of events of the song table
N_EVENTS == 2
\* largest tick count of an event of the playing sketches
MaxTicks == 30
\* largest duration (ms) of an event of the frequency-table sketch
MaxTableDur == 12

\* largest tick count of an event of the pause-button sketch
MaxPauseTicks == 8

\* analogRead() results tried: the ends, a third, the centre, two thirds
PotReadings == {0, 341, 512, 700, 1023}
\* notes tried: a rest, the lowest, the first above 60 Hz, A4, the last below
\* 4000 Hz, the highest
NoteInputs == {-1, 0, 35, 69, 107, 127}
TickInputs == 0..MaxTicks
\* the same for the pause-button sketch
PausePots == {0, 341, 1023}
PauseNotes == {-1, 0, 35, 127}
PauseTicks == 0..MaxPauseTicks
\* melody[] entries tried in the frequency-table sketch
TableFreqs == {0, 40, 262, 4500}
\* digitalRead() results
LOW == 0
HIGH == 1

(***************************************************************************)
(* Integer types.                                                          *)
(***************************************************************************)
UINT16_MAX == 65535

ToU8(x)  == x % 256
ToU16(x) == x % 65536

Min(a, b) == IF a < b THEN a ELSE b

\* A uint32_t as two 16-bit limbs <<hi, lo>>: TLC's integers are 32-bit signed.
U32(x) == <<(x \div 65536) % 65536, x % 65536>>
\* a * m in uint32_t, for 0 <= m < 2^15
MulU32(a, m) == <<(a[1] * m + (a[2] * m) \div 65536) % 65536, (a[2] * m) % 65536>>
\* a / d in uint32_t, for 0 < d < 2^15
DivU32(a, d) == <<a[1] \div d, ((a[1] % d) * 65536 + a[2]) \div d>>
\* x + a in uint32_t, for 0 <= x < 2^15
AddU32(x, a) == <<(a[1] + (a[2] + x) \div 65536) % 65536, (a[2] + x) % 65536>>
\* (uint8_t)a
U32ToU8(a) == a[2] % 256

(***************************************************************************)
(* Envelope sketch: constants.                                             *)
(***************************************************************************)
TICKS_PER_BEAT == 384
BPM == 132
GATE_PERIOD_MS == 3
MIN_NOTE_MS_GAP == 8
ATTACK_PCT == 10
RELEASE_PCT == 12
ATTACK_MIN_MS == 10
ATTACK_MAX_MS == 35
RELEASE_MIN_MS == 12
RELEASE_MAX_MS == 50
\* loop(): delay(2500) after the last event
RESTART_DELAY_MS == 2500

(***************************************************************************)
(* ticksToMs.  num = ticks * 60000 and den = bpm * TICKS_PER_BEAT are      *)
(* uint32_t.  60000, den and den / 2 are multiples of 32 (384 = 3 * 2^7),  *)
(* so the uint32_t values are kept in units of 32:                         *)
(*   (ticks * 60000) mod 2^32 = 32 * ((ticks * 1875) mod 2^27).            *)
(* A negative int16_t ticks converts to 2^32 + ticks, which the mod gives. *)
(***************************************************************************)
TicksToMsAt(bpm, tk) ==
    LET num32 == (tk * (60000 \div 32)) % (2^27)
        den32 == (bpm * TICKS_PER_BEAT) \div 32
    IN  ToU16((num32 + den32 \div 2) \div den32)

ticksToMs(tk) == TicksToMsAt(BPM, tk)

(***************************************************************************)
(* midiNoteToFreq.  f = 440 * 2^((n - 69) / 12), in mHz: the twelve notes  *)
(* 120..131 halved once per octave below them.                             *)
(***************************************************************************)
TopOctaveMilliHz ==
    <<8372018, 8869844, 9397273, 9956063, 10548082, 11175303,
      11839822, 12543854, 13289750, 14080000, 14917240, 15804266>>

NoteMilliHz(n) == TopOctaveMilliHz[(n % 12) + 1] \div (2 ^ (10 - (n \div 12)))

\* mutant: the test for frequencies below 60 Hz is missing
midiNoteToFreq_NoFloor(midiNote) ==
    LET f == NoteMilliHz(midiNote)
    IN  IF f > 4000000 THEN 4000 ELSE (f + 500) \div 1000

midiNoteToFreq(midiNote) ==
    LET f == NoteMilliHz(midiNote)
    IN  IF f < 60000 THEN 0
        ELSE IF f > 4000000 THEN 4000
        ELSE (f + 500) \div 1000

\* playNote of loop(): the transposed note clamped to 0..127
ClampNote(n) == IF n < 0 THEN 0 ELSE IF n > 127 THEN 127 ELSE n

\* map(pot, 0, 1023, -12, 12) outside a dead zone of 35 around the centre
pitchPotToTranspose(pot) ==
    LET centered == pot - 512
    IN  IF (IF centered < 0 THEN -centered ELSE centered) < 35 THEN 0
        ELSE (pot * 24) \div 1023 - 12

\* map(pot, 0, 1023, 10, 255)
volPotToLevel(pot) == ToU8((pot * 245) \div 1023 + 10)

(***************************************************************************)
(* playToneWithEnvelope: the attack / release split of a note of d ms.     *)
(***************************************************************************)
ClampMs(x, lo, hi) == IF x < lo THEN lo ELSE IF x > hi THEN hi ELSE x

AttackClamped(d)  == ClampMs(ToU16((d * ATTACK_PCT) \div 100), ATTACK_MIN_MS, ATTACK_MAX_MS)
ReleaseClamped(d) == ClampMs(ToU16((d * RELEASE_PCT) \div 100), RELEASE_MIN_MS, RELEASE_MAX_MS)

\* the branch taken for very short notes
Shrinks(d) == AttackClamped(d) + ReleaseClamped(d) >= d

\* mutant: the attack is not cut to half of a short note
AttackOf_Unshrunk(d) == AttackClamped(d)

AttackOf(d) ==
    IF Shrinks(d) THEN Min(AttackClamped(d), d \div 2) ELSE AttackClamped(d)

ReleaseOf(d) ==
    IF Shrinks(d) THEN Min(ReleaseClamped(d), ToU16(d - AttackOf(d))) ELSE ReleaseClamped(d)

HoldOf(d) ==
    IF d > AttackOf(d) + ReleaseOf(d) THEN ToU16(d - AttackOf(d) - ReleaseOf(d)) ELSE 0

(***************************************************************************)
(* gateFor: number of gates, level and on time of a gate.                  *)
(***************************************************************************)
StepsOf(ms) == IF ms \div GATE_PERIOD_MS > 0 THEN ms \div GATE_PERIOD_MS ELSE 1

\* (uint8_t)(levelStart + (uint32_t)(levelEnd - levelStart) * s / (steps - 1 ? steps - 1 : 1))
GateLevel(levelStart, levelEnd, st, k) ==
    LET den == IF st - 1 # 0 THEN st - 1 ELSE 1
    IN  U32ToU8(AddU32(levelStart, DivU32(MulU32(U32(levelEnd - levelStart), k), den)))

OnMsOf(level) == (GATE_PERIOD_MS * level) \div 255

PhaseMs(p) ==
    CASE p = "attack"  -> attackMs
      [] p = "hold"    -> holdMs
      [] p = "release" -> releaseMs

PhaseLevel(p, st, k) ==
    CASE p = "attack"  -> GateLevel(0, volLevel, st, k)
      [] p = "hold"    -> volLevel
      [] p = "release" -> GateLevel(volLevel, 0, st, k)

(***************************************************************************)
(* Envelope sketch: loop().  One action per stretch of code between two    *)
(* observable points; pc orders them as the code does.                     *)
(***************************************************************************)
\* the locals of playToneWithEnvelope, as they are before the first note
EnvIdle ==
    /\ volLevel = 0 /\ gap = 0 /\ playMs = 0
    /\ attackMs = 0 /\ releaseMs = 0 /\ holdMs = 0
    /\ phase = "attack" /\ steps = 0 /\ s = 0 /\ lvl = 0

\* the pause sketch's state, unused by the other sketches
PauseIdle ==
    /\ paused = FALSE /\ lastStable = HIGH /\ lastRead = HIGH /\ age = 0
    /\ remaining = 0 /\ volDuty = 0 /\ slice = 0 /\ ret = "fetch" /\ waited = FALSE

\* the locals of loop(), as they are before the first event
LoopIdle ==
    /\ elapsed = 0 /\ started = FALSE
    /\ note = -1 /\ ticks = 0 /\ durMs = 0 /\ freq = 0
    /\ onMs = 0
    /\ playNote = -1 /\ pitchMul = 0

\* mutant: the index is not taken back to 0 behind the last event
NextEvent_NoWrap(sk) ==
    /\ sketch = sk /\ pc = "next"
    /\ i' = i + 1
    /\ pc' = "loop"
    /\ elapsed' = 0 /\ started' = FALSE
    /\ note' = -1 /\ ticks' = 0 /\ durMs' = 0 /\ freq' = 0
    /\ onMs' = 0
    /\ playNote' = -1 /\ pitchMul' = 0
    /\ volLevel' = 0 /\ gap' = 0 /\ playMs' = 0
    /\ attackMs' = 0 /\ releaseMs' = 0 /\ holdMs' = 0
    /\ phase' = "attack" /\ steps' = 0 /\ s' = 0 /\ lvl' = 0
    /\ remaining' = 0 /\ volDuty' = 0 /\ slice' = 0 /\ ret' = "fetch" /\ waited' = FALSE
    /\ UNCHANGED <<sketch, tone, btnVars>>

\* the end of the body of the for loop: i++, and the locals of the iteration go
\* out of scope (the model returns them to their first values)
NextEvent(sk) ==
    /\ sketch = sk /\ pc = "next"
    /\ i' = IF i = N_EVENTS THEN 0 ELSE i + 1
    /\ pc' = "loop"
    /\ elapsed' = 0 /\ started' = FALSE
    /\ note' = -1 /\ ticks' = 0 /\ durMs' = 0 /\ freq' = 0
    /\ onMs' = 0
    /\ playNote' = -1 /\ pitchMul' = 0
    /\ volLevel' = 0 /\ gap' = 0 /\ playMs' = 0
    /\ attackMs' = 0 /\ releaseMs' = 0 /\ holdMs' = 0
    /\ phase' = "attack" /\ steps' = 0 /\ s' = 0 /\ lvl' = 0
    /\ remaining' = 0 /\ volDuty' = 0 /\ slice' = 0 /\ ret' = "fetch" /\ waited' = FALSE
    /\ UNCHANGED <<sketch, tone, btnVars>>

\* line 191: i++
Env_Next == NextEvent("envelope")

\* lines 191-204: a rest event, noTone(); delay(durMs); continue
Env_Rest(T) ==
    /\ sketch = "envelope" /\ pc = "loop" /\ i < N_EVENTS
    /\ \E n \in NoteInputs, tk \in T, vp \in PotReadings :
          /\ n < 0
          /\ note' = n /\ ticks' = tk /\ durMs' = ticksToMs(tk)
          /\ volLevel' = volPotToLevel(vp)
          /\ tone' = 0
          /\ elapsed' = ticksToMs(tk)
    /\ started' = FALSE /\ freq' = 0
    /\ pc' = "next"
    /\ UNCHANGED <<sketch, i, gap, playMs, attackMs, releaseMs, holdMs, phase, steps, s, lvl>>
    /\ UNCHANGED <<onMs, btnVars, gateVars>>
    /\ UNCHANGED noteVars

\* mutant: the gap is dropped only for notes no longer than the gap itself
GapOf_NoMargin(d) == IF d <= MIN_NOTE_MS_GAP THEN 0 ELSE MIN_NOTE_MS_GAP

\* loop()'s gap for a note of d ms (lines 213-214)
GapOf(d) == IF d <= MIN_NOTE_MS_GAP + 5 THEN 0 ELSE MIN_NOTE_MS_GAP

\* lines 191-218: a note event up to the call of playToneWithEnvelope
Env_Note(T) ==
    /\ sketch = "envelope" /\ pc = "loop" /\ i < N_EVENTS
    /\ \E n \in NoteInputs, tk \in T, vp \in PotReadings, pp \in PotReadings :
          LET d == ticksToMs(tk)
              g == GapOf(d)
          IN  /\ n >= 0
              /\ note' = n /\ ticks' = tk /\ durMs' = d
              /\ playNote' = ClampNote(n + pitchPotToTranspose(pp))
              /\ volLevel' = volPotToLevel(vp)
              /\ freq' = midiNoteToFreq(ClampNote(n + pitchPotToTranspose(pp)))
              /\ gap' = g
              /\ playMs' = IF g > 0 THEN ToU16(d - g) ELSE d
    /\ elapsed' = 0 /\ started' = FALSE
    /\ pc' = "play"
    /\ UNCHANGED <<sketch, i, tone, attackMs, releaseMs, holdMs, phase, steps, s, lvl>>
    /\ UNCHANGED <<onMs, btnVars, gateVars>>
    /\ UNCHANGED pitchMul

\* lines 114-118: zero frequency or zero duration is silence
Play_Silent ==
    /\ sketch = "envelope" /\ pc = "play"
    /\ (freq = 0 \/ playMs = 0)
    /\ tone' = 0
    /\ elapsed' = elapsed + playMs
    /\ pc' = "gap"
    /\ UNCHANGED <<sketch, i, started, note, ticks, durMs, freq>>
    /\ UNCHANGED <<envVars, onMs, btnVars, gateVars>>
    /\ UNCHANGED noteVars

\* lines 120-137 and the call gateFor(attackMs, 0, volLevel)
Play_Envelope ==
    /\ sketch = "envelope" /\ pc = "play"
    /\ ~(freq = 0 \/ playMs = 0)
    /\ attackMs' = AttackOf(playMs)
    /\ releaseMs' = ReleaseOf(playMs)
    /\ holdMs' = HoldOf(playMs)
    /\ phase' = "attack"
    /\ pc' = "gateFor"
    /\ UNCHANGED <<sketch, i, tone, elapsed, started, note, ticks, durMs, freq>>
    /\ UNCHANGED <<volLevel, gap, playMs, steps, s, lvl, onMs, btnVars, gateVars>>
    /\ UNCHANGED noteVars

\* what follows a phase: the hold loop, gateFor(releaseMs, volLevel, 0), line 179
AfterPhase(p) == IF p = "release" THEN "return" ELSE "gateFor"
NextPhase(p)  == IF p = "attack" THEN "hold" ELSE "release"

\* lines 140-141 (gateFor) and 162-163 (hold): no gate for 0 ms, else the count
Gate_Enter ==
    /\ sketch = "envelope" /\ pc = "gateFor"
    /\ IF PhaseMs(phase) = 0
         THEN /\ pc' = AfterPhase(phase)
              /\ phase' = IF phase = "release" THEN phase ELSE NextPhase(phase)
              /\ UNCHANGED <<steps, s>>
         ELSE /\ steps' = StepsOf(PhaseMs(phase))
              /\ s' = 0
              /\ pc' = "gateOn"
              /\ UNCHANGED phase
    /\ UNCHANGED <<sketch, i, tone, elapsed, started, note, ticks, durMs, freq>>
    /\ UNCHANGED <<volLevel, gap, playMs, attackMs, releaseMs, holdMs, lvl>>
    /\ UNCHANGED <<onMs, btnVars, gateVars>>
    /\ UNCHANGED noteVars

\* lines 144-151 and 165-169: the level of gate s, tone() and the on delay
Gate_On ==
    /\ sketch = "envelope" /\ pc = "gateOn"
    /\ LET l == PhaseLevel(phase, steps, s)
           on == OnMsOf(l)
       IN  /\ lvl' = l
           /\ onMs' = on
           /\ IF on > 0
                THEN tone' = freq /\ started' = TRUE /\ elapsed' = elapsed + on
                ELSE UNCHANGED <<tone, started, elapsed>>
    /\ pc' = "gateOff"
    /\ UNCHANGED <<sketch, i, note, ticks, durMs, freq>>
    /\ UNCHANGED <<volLevel, gap, playMs, attackMs, releaseMs, holdMs, phase, steps, s>>
    /\ UNCHANGED <<btnVars, gateVars>>
    /\ UNCHANGED noteVars

\* lines 152-154 and 170-172: noTone(), the off delay, s++
Gate_Off ==
    /\ sketch = "envelope" /\ pc = "gateOff"
    /\ tone' = 0
    /\ elapsed' = elapsed + (GATE_PERIOD_MS - onMs)
    /\ s' = s + 1
    /\ IF s + 1 < steps
         THEN pc' = "gateOn" /\ UNCHANGED phase
         ELSE /\ pc' = AfterPhase(phase)
              /\ phase' = IF phase = "release" THEN phase ELSE NextPhase(phase)
    /\ UNCHANGED <<sketch, i, started, note, ticks, durMs, freq>>
    /\ UNCHANGED <<volLevel, gap, playMs, attackMs, releaseMs, holdMs, steps, lvl>>
    /\ UNCHANGED <<onMs, btnVars, gateVars>>
    /\ UNCHANGED noteVars

\* line 179: the last noTone() of playToneWithEnvelope
Play_Return ==
    /\ sketch = "envelope" /\ pc = "return"
    /\ tone' = 0
    /\ pc' = "gap"
    /\ UNCHANGED <<sketch, i, elapsed, started, note, ticks, durMs, freq>>
    /\ UNCHANGED <<envVars, onMs, btnVars, gateVars>>
    /\ UNCHANGED noteVars

\* lines 220-223: the silence between two notes
Env_Gap ==
    /\ sketch = "envelope" /\ pc = "gap"
    /\ IF gap > 0
         THEN tone' = 0 /\ elapsed' = elapsed + gap
         ELSE UNCHANGED <<tone, elapsed>>
    /\ pc' = "next"
    /\ UNCHANGED <<sketch, i, started, note, ticks, durMs, freq>>
    /\ UNCHANGED <<envVars, onMs, btnVars, gateVars>>
    /\ UNCHANGED noteVars

\* line 226 and the return of loop(), which the core calls again
Env_Restart ==
    /\ sketch = "envelope" /\ pc = "loop" /\ i = N_EVENTS
    /\ elapsed' = RESTART_DELAY_MS
    /\ i' = 0
    /\ UNCHANGED <<sketch, pc, tone, started, note, ticks, durMs, freq>>
    /\ UNCHANGED <<envVars, onMs, btnVars, gateVars>>
    /\ UNCHANGED noteVars

(***************************************************************************)
(* Plain sketch (second sketch of the .ino file): tone() for the whole     *)
(* note, 5 ms of separation.                                               *)
(***************************************************************************)
PLAIN_BPM == 120
PLAIN_TRANSPOSE == 0
PLAIN_SEP_MS == 5
PLAIN_RESTART_MS == 2000

ticksToMsPlain(tk) == TicksToMsAt(PLAIN_BPM, tk)

\* line 306: i++
Plain_Next == NextEvent("plain")

\* lines 306-316: a rest event
Plain_Rest ==
    /\ sketch = "plain" /\ pc = "loop" /\ i < N_EVENTS
    /\ \E n \in NoteInputs, tk \in TickInputs :
          /\ n < 0
          /\ note' = n /\ ticks' = tk /\ durMs' = ticksToMsPlain(tk)
          /\ elapsed' = ticksToMsPlain(tk)
    /\ tone' = 0 /\ started' = FALSE /\ freq' = 0
    /\ pc' = "next"
    /\ UNCHANGED <<sketch, i, envVars, onMs, btnVars, gateVars>>
    /\ UNCHANGED noteVars

\* lines 306-328: a note event up to the delay of its duration
Plain_Note ==
    /\ sketch = "plain" /\ pc = "loop" /\ i < N_EVENTS
    /\ \E n \in NoteInputs, tk \in TickInputs :
          LET f == midiNoteToFreq(ClampNote(n + PLAIN_TRANSPOSE))
          IN  /\ n >= 0
              /\ note' = n /\ ticks' = tk /\ durMs' = ticksToMsPlain(tk)
              /\ playNote' = ClampNote(n + PLAIN_TRANSPOSE)
              /\ freq' = f
              /\ tone' = f
              /\ started' = (f # 0)
              /\ elapsed' = ticksToMsPlain(tk)
    /\ pc' = "sound"
    /\ UNCHANGED <<sketch, i, envVars, onMs, btnVars, gateVars>>
    /\ UNCHANGED pitchMul

\* lines 323-331: after the delay; the separation follows an audible note only
Plain_NoteOff ==
    /\ sketch = "plain" /\ pc = "sound"
    /\ tone' = 0
    /\ elapsed' = IF freq = 0 THEN elapsed ELSE elapsed + PLAIN_SEP_MS
    /\ pc' = "next"
    /\ UNCHANGED <<sketch, i, started, note, ticks, durMs, freq>>
    /\ UNCHANGED <<envVars, onMs, btnVars, gateVars>>
    /\ UNCHANGED noteVars

\* line 334
Plain_Restart ==
    /\ sketch = "plain" /\ pc = "loop" /\ i = N_EVENTS
    /\ elapsed' = PLAIN_RESTART_MS
    /\ i' = 0
    /\ UNCHANGED <<sketch, pc, tone, started, note, ticks, durMs, freq>>
    /\ UNCHANGED <<envVars, onMs, btnVars, gateVars>>
    /\ UNCHANGED noteVars

(***************************************************************************)
(* Frequency-table sketch: melody[] holds frequencies, durations[] ms.     *)
(***************************************************************************)
TABLE_SEP_MS == 10
TABLE_RESTART_MS == 3000

\* line 38: i++
Table_Next == NextEvent("table")

\* lines 47-48
ClampFreq(f) == IF f < 60 THEN 60 ELSE IF f > 4000 THEN 4000 ELSE f

\* lines 38-44 and 55: a silent entry
Table_Silent ==
    /\ sketch = "table" /\ pc = "loop" /\ i < N_EVENTS
    /\ \E f \in TableFreqs, d \in 0..MaxTableDur :
          /\ f <= 0
          /\ note' = f /\ durMs' = d
          /\ elapsed' = d + TABLE_SEP_MS
    /\ tone' = 0 /\ started' = FALSE /\ freq' = 0
    /\ pc' = "next"
    /\ UNCHANGED <<sketch, i, ticks, envVars, onMs, btnVars, gateVars>>
    /\ UNCHANGED noteVars

\* lines 38-51: a sounding entry up to the delay of its duration
Table_Tone ==
    /\ sketch = "table" /\ pc = "loop" /\ i < N_EVENTS
    /\ \E f \in TableFreqs, d \in 0..MaxTableDur :
          /\ f > 0
          /\ note' = f /\ durMs' = d
          /\ freq' = ClampFreq(f)
          /\ tone' = ClampFreq(f)
          /\ elapsed' = d
    /\ started' = TRUE
    /\ pc' = "sound"
    /\ UNCHANGED <<sketch, i, ticks, envVars, onMs, btnVars, gateVars>>
    /\ UNCHANGED noteVars

\* lines 52-55
Table_ToneOff ==
    /\ sketch = "table" /\ pc = "sound"
    /\ tone' = 0
    /\ elapsed' = elapsed + TABLE_SEP_MS
    /\ pc' = "next"
    /\ UNCHANGED <<sketch, i, started, note, ticks, durMs, freq>>
    /\ UNCHANGED <<envVars, onMs, btnVars, gateVars>>
    /\ UNCHANGED noteVars

\* line 58
Table_Restart ==
    /\ sketch = "table" /\ pc = "loop" /\ i = N_EVENTS
    /\ elapsed' = TABLE_RESTART_MS
    /\ i' = 0
    /\ UNCHANGED <<sketch, pc, tone, started, note, ticks, durMs, freq>>
    /\ UNCHANGED <<envVars, onMs, btnVars, gateVars>>
    /\ UNCHANGED noteVars

(***************************************************************************)
(* Pause-button sketch.                                                    *)
(***************************************************************************)
PAUSE_BPM == 120
PAUSE_TRANSPOSE == 0
SLICE_MS == 8
DEBOUNCE_MS == 25
\* waitWhilePaused: delay(5)
WAIT_POLL_MS == 5
\* playRest: delay(2)
REST_POLL_MS == 2
\* playToneGated: delay(5) after the last slice
NOTE_SEP_MS == 5
\* loop(): playRest(2000) after the last event
RESTART_REST_MS == 2000

ticksToMsPause(tk) == TicksToMsAt(PAUSE_BPM, tk)

\* line 249: i++, and the return of loop() after playRest(2000), which the core
\* follows with loop() again
Pause_Next == NextEvent("pause")

\* millis() - lastChangeMs is only compared with DEBOUNCE_MS: kept up to one above
AgeAfter(a, d) == Min(a + d, DEBOUNCE_MS + 1)

\* mutant: every delay of playRest takes 1 ms more than it asks for
RestClock_Drift(e, d, dur) == Min(e + d + 1, dur + WAIT_POLL_MS)

\* millis() - t0 of playRest is only compared with durMs: kept up to durMs plus
\* one poll of waitWhilePaused
RestClock(e, d, dur) == Min(e + d, dur + WAIT_POLL_MS)

\* handlePauseButton with digitalRead() = r: the values it leaves
BtnAge(r)    == IF r # lastRead THEN 0 ELSE age
BtnFires(r)  == BtnAge(r) > DEBOUNCE_MS /\ r # lastStable
BtnStable(r) == IF BtnFires(r) THEN r ELSE lastStable
\* mutant: the flag is toggled on every debounced change, release included
BtnToggles_AnyEdge(r) == BtnFires(r)
BtnToggles(r) == BtnFires(r) /\ r = LOW
BtnPaused(r) == IF BtnToggles(r) THEN ~paused ELSE paused
BtnTone(r)   == IF BtnToggles(r) /\ BtnPaused(r) THEN 0 ELSE tone

\* handlePauseButton() followed by a delay of d ms
handlePauseButton(r, d) ==
    /\ lastRead' = r
    /\ lastStable' = BtnStable(r)
    /\ paused' = BtnPaused(r)
    /\ tone' = BtnTone(r)
    /\ age' = AgeAfter(BtnAge(r), d)

\* (uint32_t)(freq * pitchMul + 0.5f), pitchMul = 0.5 + (raw / 1023) * 1.5,
\* clamped to 60..4000 (lines 146-150, 201-204), in exact arithmetic
AdjFreq(base, raw) ==
    LET adj == (base * (1023 + 3 * raw) + 1023) \div 2046
    IN  IF adj < 60 THEN 60 ELSE IF adj > 4000 THEN 4000 ELSE adj

\* lines 216-218: the slice and its on time, volDuty = raw / 1023
SliceOf(rem) == IF rem >= SLICE_MS THEN SLICE_MS ELSE ToU8(rem)
SliceOn(sl, raw) ==
    LET on == ToU8((2 * sl * raw + 1023) \div 2046)
    IN  IF on > sl THEN sl ELSE on

\* lines 249-250: handlePauseButton() at the head of an iteration
Pause_Loop ==
    /\ sketch = "pause" /\ pc = "loop" /\ i < N_EVENTS
    /\ \E r \in {LOW, HIGH} : handlePauseButton(r, 0)
    /\ pc' = "wait" /\ ret' = "fetch"
    /\ UNCHANGED <<sketch, i, elapsed, started, note, ticks, durMs, freq>>
    /\ UNCHANGED <<envVars, onMs, remaining, volDuty, slice, waited>>
    /\ UNCHANGED noteVars

\* lines 181-184: one turn of waitWhilePaused while the flag is set
Pause_Wait ==
    /\ sketch = "pause" /\ pc = "wait"
    /\ paused
    /\ \E r \in {LOW, HIGH} : handlePauseButton(r, WAIT_POLL_MS)
    /\ elapsed' = IF ret = "restDelay" THEN RestClock(elapsed, WAIT_POLL_MS, durMs) ELSE elapsed
    /\ waited' = TRUE
    /\ UNCHANGED <<sketch, pc, i, started, note, ticks, durMs, freq>>
    /\ UNCHANGED <<envVars, onMs, remaining, volDuty, slice, ret>>
    /\ UNCHANGED noteVars

\* line 181: waitWhilePaused returns when the flag is clear
Pause_WaitDone ==
    /\ sketch = "pause" /\ pc = "wait"
    /\ ~paused
    /\ pc' = ret
    /\ UNCHANGED <<sketch, i, tone, elapsed, started, note, ticks, durMs, freq>>
    /\ UNCHANGED <<envVars, onMs, btnVars, gateVars>>
    /\ UNCHANGED noteVars

\* lines 253-259, 262-268 and 188-189: an event played by playRest
Pause_FetchRest ==
    /\ sketch = "pause" /\ pc = "fetch"
    /\ \E n \in PauseNotes, tk \in PauseTicks :
          /\ n < 0 \/ midiNoteToFreq(ClampNote(n + PAUSE_TRANSPOSE)) = 0
          /\ note' = n /\ ticks' = tk /\ durMs' = ticksToMsPause(tk)
          /\ playNote' = IF n < 0 THEN -1 ELSE ClampNote(n + PAUSE_TRANSPOSE)
    /\ freq' = 0
    /\ tone' = 0
    /\ elapsed' = 0 /\ started' = FALSE /\ waited' = FALSE
    /\ pc' = "rest"
    /\ UNCHANGED <<sketch, i, envVars, onMs, btnVars, remaining, volDuty, slice, ret>>
    /\ UNCHANGED pitchMul

\* lines 253-270 and 198-210: an event played by playToneGated
Pause_FetchTone ==
    /\ sketch = "pause" /\ pc = "fetch"
    /\ \E n \in PauseNotes, tk \in PauseTicks, pp \in PausePots, vp \in PausePots :
          LET base == midiNoteToFreq(ClampNote(n + PAUSE_TRANSPOSE))
          IN  /\ n >= 0 /\ base # 0
              /\ note' = n /\ ticks' = tk /\ durMs' = ticksToMsPause(tk)
              /\ playNote' = ClampNote(n + PAUSE_TRANSPOSE)
              /\ pitchMul' = pp
              /\ freq' = AdjFreq(base, pp)
              /\ volDuty' = vp
              /\ remaining' = ticksToMsPause(tk)
    /\ elapsed' = 0 /\ started' = FALSE /\ waited' = FALSE
    /\ pc' = "tone"
    /\ UNCHANGED <<sketch, i, tone, envVars, onMs, btnVars, slice, ret>>

\* lines 190-191: the loop test of playRest and handlePauseButton()
Pause_RestPoll ==
    /\ sketch = "pause" /\ pc = "rest"
    /\ elapsed < durMs
    /\ \E r \in {LOW, HIGH} : handlePauseButton(r, 0)
    /\ pc' = "wait" /\ ret' = "restDelay"
    /\ UNCHANGED <<sketch, i, elapsed, started, note, ticks, durMs, freq>>
    /\ UNCHANGED <<envVars, onMs, remaining, volDuty, slice, waited>>
    /\ UNCHANGED noteVars

\* line 193: delay(2)
Pause_RestDelay ==
    /\ sketch = "pause" /\ pc = "restDelay"
    /\ elapsed' = RestClock(elapsed, REST_POLL_MS, durMs)
    /\ age' = AgeAfter(age, REST_POLL_MS)
    /\ pc' = "rest"
    /\ UNCHANGED <<sketch, i, tone, started, note, ticks, durMs, freq>>
    /\ UNCHANGED <<envVars, onMs, paused, lastStable, lastRead, gateVars>>
    /\ UNCHANGED noteVars

\* line 190: playRest returns
Pause_RestDone ==
    /\ sketch = "pause" /\ pc = "rest"
    /\ ~(elapsed < durMs)
    /\ pc' = "next"
    /\ UNCHANGED <<sketch, i, tone, elapsed, started, note, ticks, durMs, freq>>
    /\ UNCHANGED <<envVars, onMs, btnVars, gateVars>>
    /\ UNCHANGED noteVars

\* lines 212-213: the loop test of playToneGated and handlePauseButton()
Pause_TonePoll ==
    /\ sketch = "pause" /\ pc = "tone"
    /\ remaining > 0
    /\ \E r \in {LOW, HIGH} : handlePauseButton(r, 0)
    /\ pc' = "wait" /\ ret' = "slice"
    /\ UNCHANGED <<sketch, i, elapsed, started, note, ticks, durMs, freq>>
    /\ UNCHANGED <<envVars, onMs, remaining, volDuty, slice, waited>>
    /\ UNCHANGED noteVars

\* lines 216-225: the on part of a slice
Pause_SliceOn ==
    /\ sketch = "pause" /\ pc = "slice"
    /\ LET sl == SliceOf(remaining)
           on == SliceOn(sl, volDuty)
       IN  /\ slice' = sl
           /\ onMs' = on
           /\ IF on > 0
                THEN tone' = freq /\ started' = TRUE
                ELSE tone' = 0 /\ UNCHANGED started
           /\ elapsed' = elapsed + on
           /\ age' = AgeAfter(age, on)
    /\ pc' = "sliceOff"
    /\ UNCHANGED <<sketch, i, note, ticks, durMs, freq>>
    /\ UNCHANGED <<envVars, paused, lastStable, lastRead, remaining, volDuty, ret, waited>>
    /\ UNCHANGED noteVars

\* lines 227-234: the off part of a slice
Pause_SliceOff ==
    /\ sketch = "pause" /\ pc = "sliceOff"
    /\ tone' = 0
    /\ elapsed' = elapsed + (slice - onMs)
    /\ age' = AgeAfter(age, slice - onMs)
    /\ remaining' = ToU16(remaining - slice)
    /\ pc' = "tone"
    /\ UNCHANGED <<sketch, i, started, note, ticks, durMs, freq>>
    /\ UNCHANGED <<envVars, onMs, paused, lastStable, lastRead, volDuty, slice, ret, waited>>
    /\ UNCHANGED noteVars

\* lines 212 and 238: the last slice is played; delay(5)
Pause_ToneDone ==
    /\ sketch = "pause" /\ pc = "tone"
    /\ ~(remaining > 0)
    /\ elapsed' = elapsed + NOTE_SEP_MS
    /\ age' = AgeAfter(age, NOTE_SEP_MS)
    /\ pc' = "next"
    /\ UNCHANGED <<sketch, i, tone, started, note, ticks, durMs, freq>>
    /\ UNCHANGED <<envVars, onMs, paused, lastStable, lastRead, gateVars>>
    /\ UNCHANGED noteVars

\* lines 275 and 188-189: playRest(2000) after the last event
Pause_EndRest ==
    /\ sketch = "pause" /\ pc = "loop" /\ i = N_EVENTS
    /\ durMs' = RESTART_REST_MS
    /\ tone' = 0
    /\ elapsed' = 0 /\ waited' = FALSE
    /\ pc' = "rest"
    /\ UNCHANGED <<sketch, i, started, note, ticks, freq>>
    /\ UNCHANGED <<envVars, onMs, btnVars, remaining, volDuty, slice, ret>>
    /\ UNCHANGED noteVars

(***************************************************************************)
(* The sketches from power-up.                                             *)
(***************************************************************************)
Sketches == {"envelope", "plain", "table", "pause"}

Init ==
    /\ sketch \in Sketches
    /\ pc = "loop" /\ i = 0
    /\ tone = 0
    /\ LoopIdle
    /\ EnvIdle
    /\ PauseIdle

EnvNext ==
    \/ Env_Rest(TickInputs)
    \/ Env_Note(TickInputs)
    \/ Play_Silent
    \/ Play_Envelope
    \/ Gate_Enter
    \/ Gate_On
    \/ Gate_Off
    \/ Play_Return
    \/ Env_Gap
    \/ Env_Restart
    \/ Env_Next

PlainNext ==
    \/ Plain_Rest
    \/ Plain_Note
    \/ Plain_NoteOff
    \/ Plain_Restart
    \/ Plain_Next

TableNext ==
    \/ Table_Silent
    \/ Table_Tone
    \/ Table_ToneOff
    \/ Table_Restart
    \/ Table_Next

PauseNext ==
    \/ Pause_Loop
    \/ Pause_Wait
    \/ Pause_WaitDone
    \/ Pause_FetchRest
    \/ Pause_FetchTone
    \/ Pause_RestPoll
    \/ Pause_RestDelay
    \/ Pause_RestDone
    \/ Pause_TonePoll
    \/ Pause_SliceOn
    \/ Pause_SliceOff
    \/ Pause_ToneDone
    \/ Pause_EndRest
    \/ Pause_Next

Next == EnvNext \/ PlainNext \/ TableNext \/ PauseNext

Spec == Init /\ [][Next]_vars

(***************************************************************************)
(* Specifications for single functions.                                    *)
(***************************************************************************)
AllTicks == 0..UINT16_MAX

\* the envelope sketch alone, its events taking every uint16_t tick count
TicksInit == Init /\ sketch = "envelope"

TicksNext ==
    \/ Env_Rest(AllTicks)
    \/ Env_Next
    \/ Env_Restart

SpecTicks == TicksInit /\ [][TicksNext]_vars

\* playToneWithEnvelope entered with every uint16_t duration
EnvelopeInit ==
    /\ sketch = "envelope" /\ pc = "play" /\ i = 0
    /\ tone = 0 /\ elapsed = 0 /\ started = FALSE
    /\ note = 69 /\ playNote = 69 /\ ticks = 0 /\ pitchMul = 0
    /\ freq \in {0, 440}
    /\ playMs \in 0..UINT16_MAX
    /\ durMs = playMs /\ gap = 0
    /\ volLevel = 255
    /\ attackMs = 0 /\ releaseMs = 0 /\ holdMs = 0
    /\ phase = "attack" /\ steps = 0 /\ s = 0 /\ lvl = 0
    /\ onMs = 0
    /\ PauseIdle

EnvelopeNext ==
    \/ Play_Silent
    \/ Play_Envelope

SpecEnvelope == EnvelopeInit /\ [][EnvelopeNext]_vars

\* the processor keeps running the sketch
LiveSpec == Spec /\ WF_vars(Next)

(***************************************************************************)
(* Properties.                                                             *)
(***************************************************************************)
\* positions inside playToneWithEnvelope after the envelope is computed
EnvPlaying == {"gateFor", "gateOn", "gateOff", "return"}

AbsDiff(a, b) == IF a < b THEN b - a ELSE a - b

\* C1: in gateFor, the level of gate s of steps gates is the linear
\* interpolation levelStart + (levelEnd - levelStart) * s / max(1, steps - 1),
\* less than one level off whatever the rounding, for the attack (0 to
\* volLevel) and the release (volLevel to 0); the release never exceeds
\* volLevel and its last gate has level 0 when steps >= 2.
C1_LinearLevel ==
    (sketch = "envelope" /\ pc = "gateOff" /\ phase \in {"attack", "release"}) =>
        LET den == IF steps - 1 > 0 THEN steps - 1 ELSE 1
            ls  == IF phase = "attack" THEN 0 ELSE volLevel
            le  == IF phase = "attack" THEN volLevel ELSE 0
        IN  /\ AbsDiff(lvl * den, ls * den + (le - ls) * s) < den
            /\ lvl <= volLevel
            /\ (phase = "release" /\ steps >= 2 /\ s = steps - 1) => lvl = 0

\* C2: for every sounding duration of at least 1 ms with a non-zero
\* frequency, after the percent computation, the clamping and the shrinking,
\* attackMs + releaseMs <= durMs and holdMs = durMs - attackMs - releaseMs >= 0.
C2_EnvelopeFits ==
    (sketch = "envelope" /\ pc \in EnvPlaying /\ playMs >= 1) =>
        /\ attackMs >= 0 /\ releaseMs >= 0
        /\ attackMs + releaseMs <= playMs
        /\ holdMs = playMs - attackMs - releaseMs
        /\ holdMs >= 0

\* C2: a note of 15 ms, shorter than the minimums 10 + 12, split into 7 + 8
C2_Witness ==
    /\ sketch = "envelope" /\ pc = "gateFor" /\ phase = "attack"
    /\ playMs = 15 /\ attackMs = 7 /\ releaseMs = 8 /\ holdMs = 0

\* C3: a note not shorter than its clamped attack plus release keeps a hold
\* section: attackMs + releaseMs < durMs and holdMs > 0.
C3_HoldNonZero ==
    (/\ sketch = "envelope" /\ pc \in EnvPlaying
     /\ AttackClamped(playMs) + ReleaseClamped(playMs) <= playMs) =>
        (attackMs + releaseMs < playMs /\ holdMs > 0)

\* C4: ticksToMs(0) = 0 and ticksToMs does not decrease from one uint16_t
\* tick count to the next, the result taken after the cast to uint16_t.
C4_Monotonic ==
    (sketch = "envelope" /\ pc = "next" /\ note < 0) =>
        /\ ticks = 0 => durMs = 0
        /\ ticks > 0 => ticksToMs(ticks - 1) <= durMs

\* the note of the current event is below 60 Hz, above 4000 Hz
NoteTooLow  == playNote >= 0 /\ NoteMilliHz(playNote) < 60000
NoteTooHigh == playNote >= 0 /\ NoteMilliHz(playNote) > 4000000

\* C5 as stated: every tone is started with 60 <= f <= 4000, a note below
\* 60 Hz starts no tone, and a note above 4000 Hz is played at exactly 4000.
C5_AsStated ==
    /\ tone # 0 => (60 <= tone /\ tone <= 4000)
    /\ NoteTooLow => (tone = 0 /\ ~started)
    /\ (NoteTooHigh /\ tone # 0) => tone = 4000

\* C5 as amended: every tone is started with 60 <= f <= 4000 and a note below
\* 60 Hz starts no tone; a note above 4000 Hz is played at exactly 4000 in the
\* envelope and plain sketches, as is a table entry above 4000; in the pause
\* sketch such a note is played at 4000 scaled by the pitch multiplier, which
\* is 4000 for a pitch reading of 341 or more and 2000..4000 below.
C5_ToneRange ==
    /\ tone # 0 => (60 <= tone /\ tone <= 4000 /\ tone = freq /\ started)
    /\ (pc = "loop" /\ i = 0) =>
          \A n \in 0..127 :
              /\ midiNoteToFreq(n) = 0 \/ (60 <= midiNoteToFreq(n) /\ midiNoteToFreq(n) <= 4000)
              /\ NoteMilliHz(n) < 60000 => midiNoteToFreq(n) = 0
              /\ NoteMilliHz(n) > 4000000 => midiNoteToFreq(n) = 4000
    /\ NoteTooLow => (tone = 0 /\ ~started)
    /\ (NoteTooHigh /\ tone # 0 /\ sketch # "pause") => tone = 4000
    /\ (NoteTooHigh /\ tone # 0 /\ sketch = "pause") =>
          /\ 2000 <= tone
          /\ pitchMul >= 341 => tone = 4000
    /\ (sketch = "table" /\ tone # 0 /\ note > 4000) => tone = 4000

\* C5: the pause sketch plays the highest note an octave below the ceiling
C5_Witness ==
    /\ sketch = "pause" /\ pc = "sliceOff"
    /\ playNote = 127 /\ pitchMul = 0 /\ tone = 2000

\* a rest event is being played or has just been played
RestEvent ==
    /\ note < 0 /\ i < N_EVENTS
    /\ \/ pc \in {"rest", "restDelay", "next"}
       \/ pc = "wait" /\ ret = "restDelay"

EnvNoteEvent ==
    /\ sketch = "envelope" /\ note >= 0
    /\ pc \in EnvPlaying \cup {"play", "gap", "next"}

\* C7 as stated: a note longer than the gap of 8 ms sounds for durMs - 8 and
\* is followed by 8 ms of silence; a note of at most 8 ms sounds for durMs
\* with no gap.
C7_AsStated ==
    EnvNoteEvent =>
        IF durMs > MIN_NOTE_MS_GAP
          THEN playMs = durMs - MIN_NOTE_MS_GAP /\ gap = MIN_NOTE_MS_GAP
          ELSE playMs = durMs /\ gap = 0

\* C7 as amended: a note longer than the gap plus 5 ms (13 ms) sounds for
\* durMs - 8 and is followed by 8 ms of silence; a note of at most 13 ms
\* sounds for durMs with no gap.
C7_GapThreshold ==
    EnvNoteEvent =>
        /\ IF durMs > MIN_NOTE_MS_GAP + 5
             THEN playMs = durMs - MIN_NOTE_MS_GAP /\ gap = MIN_NOTE_MS_GAP
             ELSE playMs = durMs /\ gap = 0
        /\ pc = "next" => (tone = 0 /\ elapsed >= gap)
        /\ (pc = "next" /\ freq = 0) => elapsed = playMs + gap

\* C7: a note of 9 ms has been played whole, with no gap
C7_Witness ==
    /\ sketch = "envelope" /\ pc = "next" /\ note >= 0 /\ freq # 0
    /\ durMs = 9 /\ playMs = 9 /\ gap = 0

\* what is left to play of the current event of the pause sketch
Remaining ==
    IF ret = "slice" THEN remaining
    ELSE IF ret = "restDelay" /\ elapsed < durMs THEN durMs - elapsed
    ELSE 0

RestartDelayOf(sk) ==
    CASE sk = "envelope" -> RESTART_DELAY_MS
      [] sk = "plain"    -> PLAIN_RESTART_MS
      [] sk = "table"    -> TABLE_RESTART_MS
      [] sk = "pause"    -> RESTART_REST_MS

\* the index moves from an event to the next one, or from behind the last one
\* to event 0 after the silent delay
IndexOrder ==
    \/ i' = i
    \/ pc = "next" /\ i < N_EVENTS /\ i' = i + 1
    \/ /\ i = N_EVENTS /\ i' = 0 /\ tone = 0 /\ tone' = 0
       /\ IF sketch = "pause"
            THEN pc = "next" /\ elapsed >= RestartDelayOf(sketch)
            ELSE pc = "loop" /\ elapsed' = RestartDelayOf(sketch)

\* C9: events are visited in index order, the last one is followed by the
\* fixed silent delay and event 0, and every event is played again and again
\* (in the pause sketch, unless the pause flag stays set for ever).
C9_Repeats ==
    /\ [][IndexOrder]_vars
    /\ \A k \in 0..(N_EVENTS - 1) :
          ([]<>(~paused)) => []<>(pc = "next" /\ i = k)

\* C9: the pause sketch ends its silent delay, interrupted by a pause, and
\* is about to restart
C9_Witness ==
    /\ sketch = "pause" /\ pc = "next" /\ i = N_EVENTS
    /\ waited /\ ~paused /\ elapsed >= RESTART_REST_MS

\* C10: the delays issued for an audible note of the envelope sketch, gates
\* and gap together, add up to its converted duration.
C10_RhythmKept ==
    (sketch = "envelope" /\ pc = "next" /\ note >= 0 /\ freq # 0) =>
        elapsed = durMs

\* a step that issues tone(): the frequency on the pin changes to a non-zero one
StartsTone == tone' # 0 /\ tone' # tone

\* C11: in the pause sketch the buzzer is silent in every state where the
\* pause flag is set; a tone is started only while the flag is clear, the
\* step that sets the flag leaves the tone stopped, and the flag changes only
\* when a LOW reading, unchanged for more than DEBOUNCE_MS, replaces a stable
\* HIGH (a press), never when the stable level goes back to HIGH (a release).
C11_PausedSilent ==
    /\ [](paused => (sketch = "pause" /\ tone = 0))
    /\ [][/\ StartsTone => (~paused /\ ~paused')
          /\ (~paused /\ paused') => tone' = 0
          /\ (paused' # paused) =>
                /\ lastRead = LOW /\ lastRead' = LOW
                /\ age > DEBOUNCE_MS
                /\ lastStable = HIGH /\ lastStable' = LOW
          /\ (lastStable = LOW /\ lastStable' = HIGH) => paused' = paused]_vars

\* C11: a debounced press has set the flag between two slices of a note that
\* had already sounded
C11_Witness ==
    /\ sketch = "pause" /\ pc = "wait" /\ ret = "slice"
    /\ paused /\ started /\ remaining > 0 /\ tone = 0
    /\ lastStable = LOW /\ lastRead = LOW

====
